---- MODULE Spec2Model ----
(***************************************************************************)
(* Model of triton.py: the top-level script (argument validation, then     *)
(* main) and the run-orchestration pipeline of main: launch of the Netuno  *)
(* process, the first simulation, the loop over the remaining input files, *)
(* the duration summary and the termination of the process.                *)
(*                                                                         *)
(* Each statement of main that calls a collaborator is one step.  A        *)
(* collaborator call either returns or raises; an exception raised inside  *)
(* main propagates out of it (main has no try statement), which ends the   *)
(* execution at pc = "failed" with the exception's name in error.          *)
(***************************************************************************)
EXTENDS Integers, Sequences, FiniteSets, TLC

(* ------------------------------ bounds -------------------------------- *)
\* Largest number of files in the precipitation directory.
MaxFiles == 3
\* Largest number of clock ticks one blocking simulation run may take.
MaxTick == 2
\* Largest number of -q flags on the command line.
MaxQuiet == 3

(* --------------------------- input universe --------------------------- *)
\* A file name is the sequence of its delimiter-separated tokens.
FileA1 == <<"A", "M", "s1">>
FileB2 == <<"B", "M", "s2">>
FileA2 == <<"A", "M", "s2">>
\* A well-formed name whose scenario has no entry in INITIAL_DATES.
FileB9 == <<"B", "M", "s9">>
\* A name that does not follow the naming convention.
FileBad == <<"notes">>

Files == {FileA1, FileB2, FileA2, FileB9, FileBad}

\* The listings a directory may give: distinct names, in OS-provided order.
Directories ==
    { d \in UNION { [1..n -> Files] : n \in 0..MaxFiles } :
        \A i, j \in DOMAIN d : i # j => d[i] # d[j] }

(* ------------------------ imported collaborators ---------------------- *)
\* globals.constants.NETUNO_STARTUP_WAIT_TIME, in clock ticks.
NETUNO_STARTUP_WAIT_TIME == 5

\* globals.constants.INITIAL_DATES: scenario -> initial date.
INITIAL_DATES == [s \in {"s1", "s2"} |-> IF s = "s1" THEN 2015 ELSE 2040]

\* globals.constants.SIMULATION_PARAMETERS: option name -> value.
SIMULATION_PARAMETERS == [o \in {"demand", "tank"} |-> IF o = "demand" THEN 150 ELSE 3000]

\* FileNameParser.get_metadata: does the name follow the convention?
Parsable(f) == Len(f) = 3

\* FileNameParser.get_metadata on a name that follows the convention.
get_metadata(f) == [city |-> f[1], model |-> f[2], scenario |-> f[3]]

\* The numeric levels of the logging module.
NOTSET == 0
DEBUG == 10
INFO == 20
WARNING == 30
ERROR == 40

NoFile == <<>>
NoKey == [city |-> "", model |-> "", scenario |-> ""]

(* ------------------------------- state -------------------------------- *)
VARIABLES
    pc,                   \* position in the script / in main
    dir,                  \* listing of args.precipitation_dir_path
    path_iterator,        \* number of entries the iterator has yielded
    file,                 \* first_file / file: the file of the current cycle
    key,                  \* (city, model, scenario) of the current cycle
    output_path,          \* value returned by the last run call
    now,                  \* time.perf_counter()
    iteration_start_time, \* local of main
    durations,            \* local of main
    proc,                 \* the Netuno process: none/running/exited/terminated
    exited_at,            \* when the process exited by itself: never/warmup/later
    calls,                \* the calls made on the collaborators, in order
    log,                  \* the messages logged by the script and by main
    error,                \* the exception that ended the execution, or "none"
    initial_dates,        \* the dict globals.constants.INITIAL_DATES
    simulation_parameters, \* the dict globals.constants.SIMULATION_PARAMETERS
    quiet,                \* validator.quiet: the number of -q flags
    verbose,              \* validator.verbose: whether -v was given
    logger_level,         \* the level of the logger "triton"
    handlers              \* the levels of the handlers added to the logger

\* The command-line flags and the logger, which only the script's set-up
\* (lines 130-132) touches.
logging == <<quiet, verbose, logger_level, handlers>>

\* The two imported dicts, which no statement of the script assigns to.
imported == <<initial_dates, simulation_parameters>>

vars == <<imported, logging, pc, dir, path_iterator, file, key, output_path, now,
          iteration_start_time, durations, proc, exited_at, calls, log, error>>

\* One call on a collaborator: op is the operation, ev is "call" (a run has
\* been issued and has not returned), "ok" (returned) or "fail" (raised),
\* and at is the clock's value when it happened.
Event(op, ev, f, arg, t) ==
    [op |-> op, ev |-> ev, file |-> f, arg |-> arg, at |-> t]

NoArg == <<>>

\* A value of the clock arithmetic: the fraction num/den in lowest terms.
Fraction(n, d) == [num |-> n, den |-> d]

\* One logged message: its kind and the number it reports, if any.
LogEntry(msg, val) == [msg |-> msg, val |-> val]

NoValue == Fraction(0, 1)

Init ==
    /\ pc = "entry"
    /\ dir \in Directories
    /\ path_iterator = 0
    /\ file = NoFile
    /\ key = NoKey
    /\ output_path = NoFile
    /\ now = 0
    /\ iteration_start_time = 0
    /\ durations = <<>>
    /\ proc = "none"
    /\ exited_at = "never"
    /\ calls = <<>>
    /\ log = <<>>
    /\ error = "none"
    /\ initial_dates = INITIAL_DATES
    /\ simulation_parameters = SIMULATION_PARAMETERS
    /\ quiet = 0
    /\ verbose = FALSE
    /\ logger_level = NOTSET
    /\ handlers = <<>>

\* Variant of Raise: the failure is recorded and the loop goes on with the
\* next file, as a try/except/continue around the cycle would do.
Raise_SkipFile(e) ==
    /\ pc' = "loop"
    /\ error' = e

\* An exception propagates out of main: nothing below the raising statement runs.
Raise(e) ==
    /\ pc' = "failed"
    /\ error' = e


(* ------------------------- the top-level script ----------------------- *)
\* CommandLineArgsValidator.validate_arguments: the outcomes it can have on
\* a directory listing d.  A directory without input data is rejected with
\* MissingInputDataError; the executable and the directory path may be
\* rejected whatever the listing is.
ValidationOutcomes(d) ==
    IF d = <<>>
    THEN {"MissingInputDataError", "InvalidNetunoExecutableError",
          "InvalidSourceDirectoryError"}
    ELSE {"ok", "InvalidNetunoExecutableError", "InvalidSourceDirectoryError"}

ValidationErrors ==
    {"InvalidNetunoExecutableError", "InvalidSourceDirectoryError",
     "MissingInputDataError"}

\* Variant of log_level: the quiet count is looked at before the verbose
\* flag.
log_level_QuietFirst(quiet_count, verbose_flag) ==
    IF quiet_count = 1 THEN WARNING
    ELSE IF quiet_count >= 2 THEN ERROR
    ELSE IF verbose_flag THEN DEBUG
    ELSE INFO

\* Lines 51-58: the level setup_logger selects.
log_level(quiet_count, verbose_flag) ==
    IF verbose_flag THEN DEBUG
    ELSE IF quiet_count = 1 THEN WARNING
    ELSE IF quiet_count >= 2 THEN ERROR
    ELSE INFO

\* Lines 60-69: setup_logger sets the selected level on the logger and on
\* a new stream handler, which it adds to the logger.
setup_logger(quiet_count, verbose_flag) ==
    /\ logger_level' = log_level(quiet_count, verbose_flag)
    /\ handlers' = Append(handlers, log_level(quiet_count, verbose_flag))

\* Lines 111-132: the module is run as a script; the arguments are parsed
\* (-q is counted, -v is a flag) and the logger is set up from them.
RunScript ==
    /\ pc = "entry"
    /\ \E q \in 0..MaxQuiet, v \in BOOLEAN :
          /\ quiet' = q
          /\ verbose' = v
          /\ setup_logger(q, v)
    /\ pc' = "validate"
    /\ UNCHANGED <<imported, dir, path_iterator, file, key, output_path, now,
                   iteration_start_time, durations, proc, exited_at, calls,
                   log, error>>

\* Line 72: main is called as a function by an importing module, with
\* arguments that did not go through the script's try statement.
CallMain ==
    /\ pc = "entry"
    /\ pc' = "main"
    /\ UNCHANGED <<imported, logging, dir, path_iterator, file, key, output_path, now,
                   iteration_start_time, durations, proc, exited_at, calls,
                   log, error>>

\* Variant of AfterValidationError: main is called after the try statement
\* instead of in its else clause.
AfterValidationError_FallsThrough(e) ==
    /\ pc' = "main"
    /\ error' = e
    /\ log' = Append(log, LogEntry("validation_failed", NoValue))

\* Where the script goes after validate_arguments raised e: the except
\* clause logs and the script ends; the else clause is skipped.
AfterValidationError(e) ==
    /\ pc' = "rejected"
    /\ error' = e
    /\ log' = Append(log, LogEntry("validation_failed", NoValue))

\* Lines 134-142: try validate_arguments / except: log / else: main.
Validate ==
    /\ pc = "validate"
    /\ \E r \in ValidationOutcomes(dir) :
          /\ calls' = Append(calls, Event("validate_arguments",
                                IF r = "ok" THEN "ok" ELSE "fail", NoFile, NoArg, now))
          /\ IF r \in ValidationErrors
             THEN AfterValidationError(r)
             ELSE /\ pc' = "main"
                  /\ UNCHANGED <<error, log>>
    /\ UNCHANGED <<imported, logging, dir, path_iterator, file, key, output_path, now,
                   iteration_start_time, durations, proc, exited_at>>

(* ------------------------------ run_netuno ---------------------------- *)
\* Variant of Popen: main looks at the listing first and launches the
\* process only when there is a first file.
Popen_AfterListing ==
    /\ pc = "main"
    /\ IF dir = <<>>
       THEN /\ Raise("StopIteration")
            /\ UNCHANGED <<proc, calls, log>>
       ELSE \E ok \in BOOLEAN :
               IF ok
               THEN /\ proc' = "running"
                    /\ calls' = Append(calls, Event("Popen", "ok", NoFile, NoArg, now))
                    /\ log' = Append(log, LogEntry("spawned", NoValue))
                    /\ pc' = "sleep"
                    /\ UNCHANGED error
               ELSE /\ calls' = Append(calls, Event("Popen", "fail", NoFile, NoArg, now))
                    /\ Raise("OSError")
                    /\ UNCHANGED <<proc, log>>
    /\ UNCHANGED <<imported, logging, dir, path_iterator, file, key, output_path, now,
                   iteration_start_time, durations, exited_at>>

\* Lines 73-75 and 34-35: main starts and run_netuno spawns the process.
\* Popen raises OSError when the executable cannot be started.
Popen ==
    /\ pc = "main"
    /\ \E ok \in BOOLEAN :
          IF ok
          THEN /\ proc' = "running"
               /\ calls' = Append(calls, Event("Popen", "ok", NoFile, NoArg, now))
               /\ log' = Append(log, LogEntry("spawned", NoValue))
               /\ pc' = "sleep"
               /\ UNCHANGED error
          ELSE /\ calls' = Append(calls, Event("Popen", "fail", NoFile, NoArg, now))
               /\ Raise("OSError")
               /\ UNCHANGED <<proc, log>>
    /\ UNCHANGED <<imported, logging, dir, path_iterator, file, key, output_path, now,
                   iteration_start_time, durations, exited_at>>

\* What run_netuno does once the warm-up sleep is over (line 37): it returns
\* the Popen object without looking at the state of the process.
AfterWarmup ==
    /\ pc' = "setup"
    /\ UNCHANGED error

\* Variant of WarmupEnd: run_netuno returns without sleeping.
WarmupEnd_NoSleep == now

\* Line 36: the clock when time.sleep(wait_after_start) returns; main calls
\* run_netuno with the default wait_after_start.
WarmupEnd == now + NETUNO_STARTUP_WAIT_TIME

\* Lines 36-37: time.sleep(wait_after_start); return new_process.
Sleep ==
    /\ pc = "sleep"
    /\ now' = WarmupEnd
    /\ AfterWarmup
    /\ UNCHANGED <<imported, logging, dir, path_iterator, file, key, output_path,
                   iteration_start_time, durations, proc, exited_at, calls, log>>

\* The external process exits by itself (crash, closed by the user).
ProcessExits ==
    /\ proc = "running"
    /\ pc \notin {"done", "failed"}
    /\ proc' = "exited"
    /\ exited_at' = IF pc = "sleep" THEN "warmup" ELSE "later"
    /\ UNCHANGED <<imported, logging, pc, dir, path_iterator, file, key, output_path, now,
                   iteration_start_time, durations, calls, log, error>>


(* --------------------------------- main ------------------------------- *)
\* Lines 76-81: the automator, the empty durations list, the exporter and
\* the directory iterator are created; the first cycle's clock is read.
Setup ==
    /\ pc = "setup"
    /\ durations' = <<>>
    /\ path_iterator' = 0
    /\ iteration_start_time' = now
    /\ pc' = "next_first"
    /\ UNCHANGED <<imported, logging, dir, file, key, output_path, now, proc, exited_at, calls,
                   log, error>>

\* Variant of IteratorAfterFirst: the first file is read without being
\* consumed, and the loop starts from the first entry again.
IteratorAfterFirst_Peek == path_iterator

\* Line 82: next consumes the entry it returns, so that the for statement
\* of line 91 goes on from the second entry.
IteratorAfterFirst == path_iterator + 1

\* Line 82: first_file = next(path_iterator).  next raises StopIteration on
\* an exhausted iterator.
NextFirst ==
    /\ pc = "next_first"
    /\ IF path_iterator < Len(dir)
       THEN /\ file' = dir[path_iterator + 1]
            /\ path_iterator' = IteratorAfterFirst
            /\ pc' = "meta_first"
            /\ UNCHANGED error
       ELSE /\ Raise("StopIteration")
            /\ UNCHANGED <<file, path_iterator>>
    /\ UNCHANGED <<imported, logging, dir, key, output_path, now, iteration_start_time,
                   durations, proc, exited_at, calls, log>>

\* Lines 83 and 93: city, model, scenario = FileNameParser.get_metadata(f).
\* next_pc is the statement that follows.
GetMetadata(next_pc) ==
    IF Parsable(file)
    THEN /\ key' = get_metadata(file)
         /\ calls' = Append(calls, Event("get_metadata", "ok", file, NoArg, now))
         /\ pc' = next_pc
         /\ UNCHANGED error
    ELSE /\ calls' = Append(calls, Event("get_metadata", "fail", file, NoArg, now))
         /\ Raise("UnparsableFileNameError")
         /\ UNCHANGED key

\* Line 83.
MetadataFirst ==
    /\ pc = "meta_first"
    /\ GetMetadata("run_first")
    /\ UNCHANGED <<imported, logging, dir, path_iterator, file, output_path, now,
                   iteration_start_time, durations, proc, exited_at, log>>

\* Variant of LoopRunOp: the loop body repeats the full first run.
LoopRunOp_First == "run_first_simulation"

\* The operation the loop body asks of the automator (line 94).
LoopRunOp == "run_simulation"

\* Variant of IssueRun: a file whose scenario has no initial date is
\* skipped and the loop goes on with the next file.
IssueRun_SkipMissing(op, params, next_pc) ==
    IF key.scenario \in DOMAIN initial_dates
    THEN /\ calls' = Append(calls, Event(op, "call", file,
                        [date |-> initial_dates[key.scenario], params |-> params], now))
         /\ pc' = next_pc
         /\ UNCHANGED error
    ELSE /\ pc' = "loop"
         /\ UNCHANGED <<calls, error>>

\* Lines 84-85 and 94: the arguments are evaluated (INITIAL_DATES[scenario]
\* raises KeyError for a scenario without an entry), then the run is issued
\* and blocks.  params is what the call passes besides the file and the date.
IssueRun(op, params, next_pc) ==
    IF key.scenario \in DOMAIN initial_dates
    THEN /\ calls' = Append(calls, Event(op, "call", file,
                        [date |-> initial_dates[key.scenario], params |-> params], now))
         /\ pc' = next_pc
         /\ UNCHANGED error
    ELSE /\ Raise("KeyError")
         /\ UNCHANGED calls

\* Lines 84-85: automator.run_first_simulation(first_file, date, **params).
RunFirstCall ==
    /\ pc = "run_first"
    /\ IssueRun("run_first_simulation", simulation_parameters, "in_run_first")
    /\ UNCHANGED <<imported, logging, dir, path_iterator, file, key, output_path, now,
                   iteration_start_time, durations, proc, exited_at, log>>

\* The blocking run call comes back after d ticks: it returns the output
\* path, or raises because the automation failed or timed out.  A run
\* cannot complete on a process that is not running.
RunReturns(op, next_pc) ==
    \E d \in 1..MaxTick, r \in {"ok", "AutomationError", "SimulationTimeoutError"} :
       /\ now' = now + d
       /\ IF r = "ok"
          THEN /\ proc = "running"
               /\ output_path' = file
               /\ calls' = Append(calls, Event(op, "ok", file, NoArg, now'))
               /\ pc' = next_pc
               /\ UNCHANGED error
          ELSE /\ calls' = Append(calls, Event(op, "fail", file, NoArg, now'))
               /\ Raise(r)
               /\ UNCHANGED output_path

\* Line 84: the first run returns.
RunFirstReturn ==
    /\ pc = "in_run_first"
    /\ RunReturns("run_first_simulation", "parse_first")
    /\ UNCHANGED <<imported, logging, dir, path_iterator, file, key, iteration_start_time,
                   durations, proc, exited_at, log>>

\* Lines 86-87 and 95-96: ResultParser(output_path).parse_results(), which
\* is evaluated before save_results is called.
ParseResults(next_pc) ==
    \E ok \in BOOLEAN :
       IF ok
       THEN /\ calls' = Append(calls, Event("parse_results", "ok", output_path, NoArg, now))
            /\ pc' = next_pc
            /\ UNCHANGED error
       ELSE /\ calls' = Append(calls, Event("parse_results", "fail", output_path, NoArg, now))
            /\ Raise("ResultParseError")

\* Lines 86-87.
ParseFirst ==
    /\ pc = "parse_first"
    /\ ParseResults("save_first")
    /\ UNCHANGED <<imported, logging, dir, path_iterator, file, key, output_path, now,
                   iteration_start_time, durations, proc, exited_at, log>>

\* Variant of SaveResults: the export is keyed by the metadata of the first
\* file, as if the loop body did not rebind city, model and scenario.
SaveResults_StaleKey(ok) ==
    calls' = Append(calls, Event("save_results", IF ok THEN "ok" ELSE "fail",
                                 output_path, get_metadata(dir[1]), now))

\* Lines 87 and 96: exporter.save_results(city, model, scenario, records);
\* the records are those parsed from output_path.
SaveResults(ok) ==
    calls' = Append(calls, Event("save_results", IF ok THEN "ok" ELSE "fail",
                                 output_path, key, now))

\* Variant of DurationsAfterFirst: the first cycle's time is recorded too.
DurationsAfterFirst_Recorded == Append(durations, now - iteration_start_time)

\* The durations list after the first cycle (lines 88-90): the first
\* cycle's time is logged and not recorded.
DurationsAfterFirst == durations

\* Lines 87-90: the first export, then the log entry of the first cycle.
SaveFirst ==
    /\ pc = "save_first"
    /\ \E ok \in BOOLEAN :
          /\ SaveResults(ok)
          /\ IF ok
             THEN /\ durations' = DurationsAfterFirst
                  /\ log' = Append(log, LogEntry("first_done", Fraction(now - iteration_start_time, 1)))
                  /\ pc' = "loop"
                  /\ UNCHANGED error
             ELSE /\ Raise("ExportWriteError")
                  /\ UNCHANGED <<durations, log>>
    /\ UNCHANGED <<imported, logging, dir, path_iterator, file, key, output_path, now,
                   iteration_start_time, proc, exited_at>>


\* Variant of LoopNext: the iterator drops an entry whenever two are left.
LoopNext_SkipsOne ==
    IF path_iterator + 2 <= Len(dir) THEN path_iterator + 2 ELSE path_iterator + 1

\* Line 91: the entry the for statement takes from path_iterator is the one
\* that follows the last entry the iterator yielded.
LoopNext == path_iterator + 1

\* Variant of AfterLoop: the process is terminated right after the loop and
\* the summary is left out.
AfterLoop_NoSummary == "terminate"

\* Lines 103-105 follow the for statement: the summary comes before the
\* termination of the process.
AfterLoop == "summary"

\* Line 91: the for statement asks path_iterator, the iterator the first
\* file was taken from, for its next entry, and leaves the loop when it is
\* exhausted.  Line 92 reads the clock.
ForLoop ==
    /\ pc = "loop"
    /\ IF path_iterator < Len(dir)
       THEN /\ file' = dir[LoopNext]
            /\ path_iterator' = LoopNext
            /\ iteration_start_time' = now
            /\ pc' = "meta"
       ELSE /\ pc' = AfterLoop
            /\ UNCHANGED <<file, path_iterator, iteration_start_time>>
    /\ UNCHANGED <<imported, logging, dir, key, output_path, now, durations, proc, exited_at,
                   calls, log, error>>

\* Line 93.
MetadataNext ==
    /\ pc = "meta"
    /\ GetMetadata("run")
    /\ UNCHANGED <<imported, logging, dir, path_iterator, file, output_path, now,
                   iteration_start_time, durations, proc, exited_at, log>>

\* Variant of LoopRunParams: the loop body passes the parameters again.
LoopRunParams_Reapplied == simulation_parameters

\* Line 94: run_simulation is given the file and the date, and no keyword
\* argument.
LoopRunParams == <<>>

\* Line 94: automator.run_simulation(file, INITIAL_DATES[scenario]).
RunSimulationCall ==
    /\ pc = "run"
    /\ IssueRun(LoopRunOp, LoopRunParams, "in_run")
    /\ UNCHANGED <<imported, logging, dir, path_iterator, file, key, output_path, now,
                   iteration_start_time, durations, proc, exited_at, log>>

\* Line 94: the run returns.
RunSimulationReturn ==
    /\ pc = "in_run"
    /\ RunReturns(LoopRunOp, "parse")
    /\ UNCHANGED <<imported, logging, dir, path_iterator, file, key, iteration_start_time,
                   durations, proc, exited_at, log>>

\* Variant of AfterParseNext: the loop body goes to the next file without
\* exporting.
AfterParseNext_SkipExport == "loop"

\* The statement that follows line 95's parse in the loop body.
AfterParseNext == "save"

\* Lines 95-96.
ParseNext ==
    /\ pc = "parse"
    /\ ParseResults(AfterParseNext)
    /\ UNCHANGED <<imported, logging, dir, path_iterator, file, key, output_path, now,
                   iteration_start_time, durations, proc, exited_at, log>>

\* Variant of AfterSaveNext: the batch is cut short after a slow cycle.
AfterSaveNext_StopWhenSlow ==
    IF now - iteration_start_time > 1 THEN "summary" ELSE "loop"

\* Lines 98-101 end the loop body: the duration is recorded and logged, and
\* the for statement is reached again whatever the duration was.
AfterSaveNext == "loop"

\* Lines 96-101: the export, then the cycle's duration is computed, appended
\* to durations and logged.
SaveNext ==
    /\ pc = "save"
    /\ \E ok \in BOOLEAN :
          /\ SaveResults(ok)
          /\ IF ok
             THEN /\ durations' = Append(durations, now - iteration_start_time)
                  /\ log' = Append(log, LogEntry("iter_done",
                                      Fraction(now - iteration_start_time, 1)))
                  /\ pc' = AfterSaveNext
                  /\ UNCHANGED error
             ELSE /\ Raise("ExportWriteError")
                  /\ UNCHANGED <<durations, log>>
    /\ UNCHANGED <<imported, logging, dir, path_iterator, file, key, output_path, now,
                   iteration_start_time, proc, exited_at>>

RECURSIVE Sum(_)
Sum(s) == IF s = <<>> THEN 0 ELSE s[1] + Sum(Tail(s))

RECURSIVE Gcd(_, _)
Gcd(a, b) == IF b = 0 THEN a ELSE Gcd(b, a % b)

\* statistics.mean on a non-empty sequence: the exact arithmetic mean.
mean(s) ==
    LET g == Gcd(Sum(s), Len(s))
    IN  Fraction(Sum(s) \div g, Len(s) \div g)

\* Lines 103-105: the summary message is formatted, which evaluates
\* mean(durations); statistics.mean raises StatisticsError on an empty
\* sequence.
Summary ==
    /\ pc = "summary"
    /\ IF durations # <<>>
       THEN /\ log' = Append(log, LogEntry("summary", mean(durations)))
            /\ pc' = "terminate"
            /\ UNCHANGED error
       ELSE /\ Raise("StatisticsError")
            /\ UNCHANGED log
    /\ UNCHANGED <<imported, logging, dir, path_iterator, file, key, output_path, now,
                   iteration_start_time, durations, proc, exited_at, calls>>

\* Lines 107-108: netuno_process.terminate(), then the last log entry.
Terminate ==
    /\ pc = "terminate"
    /\ proc' = "terminated"
    /\ calls' = Append(calls, Event("terminate", "ok", NoFile, NoArg, now))
    /\ log' = Append(log, LogEntry("terminated", NoValue))
    /\ pc' = "done"
    /\ UNCHANGED <<imported, logging, dir, path_iterator, file, key, output_path, now,
                   iteration_start_time, durations, exited_at, error>>

Next ==
    \/ RunScript
    \/ CallMain
    \/ Validate
    \/ Popen
    \/ Sleep
    \/ ProcessExits
    \/ Setup
    \/ NextFirst
    \/ MetadataFirst
    \/ RunFirstCall
    \/ RunFirstReturn
    \/ ParseFirst
    \/ SaveFirst
    \/ ForLoop
    \/ MetadataNext
    \/ RunSimulationCall
    \/ RunSimulationReturn
    \/ ParseNext
    \/ SaveNext
    \/ Summary
    \/ Terminate

Spec == Init /\ [][Next]_vars

\* The script runs to its end: main is one sequential thread, and every
\* collaborator call returns or raises.  The process may keep running.
Program ==
    \/ RunScript \/ CallMain \/ Validate \/ Popen \/ Sleep \/ Setup
    \/ NextFirst \/ MetadataFirst \/ RunFirstCall \/ RunFirstReturn
    \/ ParseFirst \/ SaveFirst \/ ForLoop \/ MetadataNext
    \/ RunSimulationCall \/ RunSimulationReturn \/ ParseNext \/ SaveNext
    \/ Summary \/ Terminate

FairSpec == Spec /\ WF_vars(Program)

TypeOK ==
    /\ pc \in {"entry", "validate", "rejected", "main", "sleep", "setup",
               "next_first", "meta_first", "run_first", "in_run_first",
               "parse_first", "save_first", "loop", "meta", "run", "in_run",
               "parse", "save", "summary", "terminate", "done", "failed"}
    /\ dir \in Directories
    /\ path_iterator \in 0..Len(dir)
    /\ proc \in {"none", "running", "exited", "terminated"}
    /\ exited_at \in {"never", "warmup", "later"}
    /\ now \in Nat


(* ---------------------- observations on an execution ------------------ *)
RunOps == {"run_first_simulation", "run_simulation"}

\* The indices of calls at which operation op was issued or completed as ev.
At(op, ev) == { i \in DOMAIN calls : calls[i].op = op /\ calls[i].ev = ev }

\* The indices at which a run was issued.
RunCallsAt == { i \in DOMAIN calls : calls[i].op \in RunOps /\ calls[i].ev = "call" }

\* The files passed to run operation op, in call order.
FilesRunBy(op) ==
    LET sel == SelectSeq(calls, LAMBDA e : e.op = op /\ e.ev = "call")
    IN  [i \in DOMAIN sel |-> sel[i].file]

Launched == At("Popen", "ok") # {}
Terminations == Cardinality(At("terminate", "ok"))

\* main has returned or an exception has left it.
MainEnded == pc \in {"done", "failed"}

\* No run, parse or export has been made.
NoPipelineCall ==
    \A i \in DOMAIN calls :
        calls[i].op \notin RunOps \cup {"parse_results", "save_results"}

\* Every cycle went through: the for statement found the iterator exhausted.
LoopCompleted ==
    \/ pc \in {"summary", "terminate", "done"}
    \/ pc = "failed" /\ error = "StatisticsError"

(* -------------------------------- claims ------------------------------ *)

\* C1 (as claimed): the process is terminated exactly once if the launch
\* succeeded and never if it failed: terminate is never called without a
\* successful launch nor twice, and when main has ended after a successful
\* launch, terminate has been called.
C1_TeardownExactlyOnce ==
    /\ Terminations <= 1
    /\ ~Launched => Terminations = 0
    /\ (MainEnded /\ Launched) => Terminations = 1

\* C2: in an execution over N >= 1 files in which no collaborator fails,
\* run_first_simulation is called exactly once, on the first file of the
\* listing, and run_simulation exactly N-1 times; run_first_simulation is
\* never called more than once whatever happens.
C2_FirstOnceThenNMinusOne ==
    /\ Len(FilesRunBy("run_first_simulation")) <= 1
    /\ (LoopCompleted /\ Len(dir) >= 1) =>
          /\ FilesRunBy("run_first_simulation") = <<dir[1]>>
          /\ Len(FilesRunBy("run_simulation")) = Len(dir) - 1

C2_Witness ==
    /\ pc = "done"
    /\ Len(dir) = 3
    /\ Len(FilesRunBy("run_simulation")) = 2
    /\ FilesRunBy("run_first_simulation") = <<dir[1]>>

\* C3 (as claimed): on an empty input directory, with arguments that are
\* otherwise valid and a process that could be launched, the execution ends
\* with MissingInputDataError and without any run, parse or export.
C3_EmptyDirectoryFailsFast ==
    (/\ dir = <<>>
     /\ pc \in {"done", "failed", "rejected"}
     /\ error \notin {"InvalidNetunoExecutableError",
                      "InvalidSourceDirectoryError", "OSError"})
    => (error = "MissingInputDataError" /\ NoPipelineCall)

\* C4 (as claimed): over a directory of exactly one file, when every
\* collaborator succeeds, the summary step does not raise: main ends
\* normally, having logged its summary and terminated the process.
C4_SingleFileSummaryCompletes ==
    (Len(dir) = 1 /\ LoopCompleted /\ MainEnded)
    => (/\ pc = "done"
        /\ error = "none"
        /\ \E i \in DOMAIN log : log[i].msg = "summary")


\* The number of files after the first whose export has completed.
NonFirstExported ==
    Cardinality({ i \in At("save_results", "ok") :
                    Len(dir) >= 1 /\ calls[i].file # dir[1] })

\* The elapsed time of the full cycle of file f, read off the call log:
\* from its metadata extraction to the completion of its export.
CycleTime(f) ==
    LET m == CHOOSE i \in At("get_metadata", "ok") : calls[i].file = f
        x == CHOOSE i \in At("save_results", "ok") : calls[i].file = f
    IN  calls[x].at - calls[m].at

\* The cycle times of the files after the first that have been exported.
NonFirstCycleTimes == [i \in 1..NonFirstExported |-> CycleTime(dir[i + 1])]

\* C5: durations holds exactly the cycle times of the exported non-first
\* files, in iteration order (so N-1 entries once the loop has completed,
\* and never the first cycle's time), and the mean that the summary reports
\* is the arithmetic mean of those cycle times; the mean of 2, 3, 4 is 3.
C5_MeanOverNonFirst ==
    /\ mean(<<2, 3, 4>>) = Fraction(3, 1)
    /\ durations = NonFirstCycleTimes
    /\ (LoopCompleted /\ Len(dir) >= 1) => Len(durations) = Len(dir) - 1
    /\ \A i \in DOMAIN log :
          log[i].msg = "summary" =>
             /\ Len(dir) >= 2
             /\ log[i].val.num * (Len(dir) - 1)
                   = log[i].val.den * Sum(NonFirstCycleTimes)

C5_Witness ==
    /\ pc = "done"
    /\ Len(durations) = 2
    /\ durations[1] # durations[2]
    /\ \E i \in DOMAIN log : log[i].msg = "summary" /\ log[i].val.den = 2


\* A run, parse or export has raised.
PipelineFailed ==
    \E i \in DOMAIN calls :
        /\ calls[i].ev = "fail"
        /\ calls[i].op \in RunOps \cup {"parse_results", "save_results"}

\* No file has been passed to a run call twice.
NoFileRunTwice ==
    \A i, j \in RunCallsAt : calls[i].file = calls[j].file => i = j

\* C6: once a run, a parse or an export has raised, no further operation is
\* performed on any collaborator (the call log stays as it is and the
\* iterator yields no further file), and no file is ever passed to a run
\* call twice.
C6_FatalAbortNoRetry ==
    /\ [][PipelineFailed => (calls' = calls /\ path_iterator' = path_iterator)]_vars
    /\ [](PipelineFailed => pc = "failed")
    /\ []NoFileRunTwice

C6_Witness ==
    /\ PipelineFailed
    /\ pc = "failed"
    /\ path_iterator = 2
    /\ Len(dir) = 3
    /\ Cardinality(RunCallsAt) = 2

\* The operations of one file's cycle, in the order of the loop body.  A
\* run contributes two entries: its call and its return.
CycleOps == {"get_metadata", "parse_results", "save_results"} \cup RunOps
CycleLog == SelectSeq(calls, LAMBDA e : e.op \in CycleOps)

\* The i-th entry of the cycle log is the stage-th step of the cycle of
\* the k-th file, performed with the run operation that file calls for.
IsStep(e, k, stage) ==
    LET run == IF k = 1 THEN "run_first_simulation" ELSE "run_simulation"
    IN  /\ e.file = dir[k]
        /\ CASE stage = 1 -> e.op = "get_metadata"
             [] stage = 2 -> e.op = run /\ e.ev = "call"
             [] stage = 3 -> e.op = run /\ e.ev \in {"ok", "fail"}
             [] stage = 4 -> e.op = "parse_results"
             [] stage = 5 -> e.op = "save_results"

\* The runs issued and not yet returned.
InFlight ==
    Cardinality(RunCallsAt)
      - Cardinality({ i \in DOMAIN calls :
                        calls[i].op \in RunOps /\ calls[i].ev \in {"ok", "fail"} })

\* C7: the operations on the files are strictly sequential: the log of
\* cycle operations is, file after file in iteration order, metadata
\* extraction, run call, run return, parse, export, each step completed
\* before the next is begun (only the last entry may be a failure), and at
\* most one run is in flight at any moment.
C7_StrictlySequential ==
    /\ \A i \in DOMAIN CycleLog :
          /\ ((i - 1) \div 5) + 1 <= Len(dir)
          /\ IsStep(CycleLog[i], ((i - 1) \div 5) + 1, ((i - 1) % 5) + 1)
          /\ i < Len(CycleLog) => CycleLog[i].ev # "fail"
    /\ InFlight \in {0, 1}
    /\ InFlight = 1 <=> pc \in {"in_run_first", "in_run"}

C7_Witness ==
    /\ pc = "in_run"
    /\ InFlight = 1
    /\ Len(CycleLog) = 12
    /\ Len(dir) = 3

\* C8: every run_simulation call comes after the one run_first_simulation
\* call has returned successfully, run_first_simulation is not called a
\* second time, and every run call is made after the process was started
\* and before it is terminated.
C8_DriverOrder ==
    /\ \A i \in At("run_simulation", "call") :
          \E j \in At("run_first_simulation", "ok") : j < i
    /\ Cardinality(At("run_first_simulation", "call")) <= 1
    /\ \A i \in RunCallsAt :
          /\ \E j \in At("Popen", "ok") : j < i
          /\ \A j \in At("terminate", "ok") : i < j
    /\ proc \in {"none", "terminated"} => pc \notin {"in_run_first", "in_run"}

C8_Witness ==
    /\ pc = "done"
    /\ Cardinality(At("run_simulation", "call")) = 2
    /\ proc = "terminated"

\* C9: when validate_arguments raises one of its three errors, the error is
\* logged and main is not called: the process is not launched, there is no
\* run, parse or export, and validate_arguments is not called again.
C9_ValidationFailureStopsScript ==
    At("validate_arguments", "fail") # {} =>
       /\ pc = "rejected"
       /\ error \in ValidationErrors
       /\ calls = <<Event("validate_arguments", "fail", NoFile, NoArg, 0)>>
       /\ log = <<LogEntry("validation_failed", NoValue)>>
       /\ proc = "none"

C9_Witness ==
    /\ pc = "rejected"
    /\ error = "MissingInputDataError"
    /\ dir = <<>>

\* C10 (as claimed): when the process exits during the warm-up interval,
\* run_netuno raises ProcessLaunchError instead of returning, so that no run
\* call is made against that process.
C10_WarmupExitFailsLaunch ==
    (exited_at = "warmup" /\ pc # "sleep") =>
       /\ error = "ProcessLaunchError"
       /\ RunCallsAt = {}


\* C11: run_netuno blocks for the whole warm-up interval: every run call is
\* issued at least NETUNO_STARTUP_WAIT_TIME after the process was spawned,
\* and none is issued while run_netuno is still sleeping.
C11_NoRunBeforeWarmupElapsed ==
    /\ \A i \in RunCallsAt :
          \E j \in At("Popen", "ok") :
             j < i /\ calls[i].at >= calls[j].at + NETUNO_STARTUP_WAIT_TIME
    /\ pc \in {"main", "sleep"} => RunCallsAt = {}

C11_Witness ==
    \E i \in At("run_first_simulation", "call"), j \in At("Popen", "ok") :
        calls[i].at = calls[j].at + NETUNO_STARTUP_WAIT_TIME


\* The indices at which operation op was performed on file f, whatever the
\* outcome.
OpsOn(op, f) ==
    { i \in DOMAIN calls :
        calls[i].op = op /\ calls[i].file = f /\ calls[i].ev \in {"ok", "fail"} }

\* C12: the output of each completed run is parsed exactly once (as soon as
\* the run has returned, and not again), the records of each successful
\* parse are exported exactly once, and every export is keyed by the
\* metadata of the very file whose run produced the records; so a file whose
\* cycle completed has exactly one parse and exactly one export.
C12_ResultsConsumedOnceUnderOwnKey ==
    /\ \A i \in DOMAIN calls :
          (calls[i].op \in RunOps /\ calls[i].ev = "ok") =>
             Cardinality(OpsOn("parse_results", calls[i].file))
                = IF i < Len(calls) THEN 1 ELSE 0
    /\ \A i \in At("parse_results", "ok") :
          Cardinality(OpsOn("save_results", calls[i].file))
             = IF i < Len(calls) THEN 1 ELSE 0
    /\ \A i \in DOMAIN calls :
          calls[i].op = "parse_results" =>
             /\ i > 1
             /\ calls[i - 1].op \in RunOps
             /\ calls[i - 1].ev = "ok"
             /\ calls[i - 1].file = calls[i].file
    /\ \A i \in DOMAIN calls :
          calls[i].op = "save_results" =>
             /\ i > 1
             /\ calls[i - 1] = Event("parse_results", "ok", calls[i].file,
                                     NoArg, calls[i - 1].at)
             /\ calls[i].arg = get_metadata(calls[i].file)

C12_Witness ==
    /\ pc = "done"
    /\ Len(dir) = 3
    /\ \A k \in 1..3 :
          /\ Cardinality(OpsOn("parse_results", dir[k])) = 1
          /\ \E i \in At("save_results", "ok") :
                calls[i].file = dir[k] /\ calls[i].arg = get_metadata(dir[k])


\* The scenario that the name of file f carries.
ScenarioOf(f) == get_metadata(f).scenario

\* C13: every run call passes the initial date recorded for the scenario of
\* the file it runs; a scenario without an entry raises KeyError at the file
\* that carries it, which ends the whole execution: that file is not run, no
\* later file is taken from the iterator, and no file is ever skipped (every
\* file before the current one has been run).
C13_InitialDateOrFatal ==
    /\ \A i \in RunCallsAt :
          /\ ScenarioOf(calls[i].file) \in DOMAIN INITIAL_DATES
          /\ calls[i].arg.date = INITIAL_DATES[ScenarioOf(calls[i].file)]
    /\ error = "KeyError" =>
          /\ pc = "failed"
          /\ file = dir[path_iterator]
          /\ ScenarioOf(file) \notin DOMAIN INITIAL_DATES
          /\ \A i \in RunCallsAt : calls[i].file # file
    /\ \A k \in 1..(path_iterator - 1) :
          \E i \in RunCallsAt : calls[i].file = dir[k]
    /\ \A i \in RunCallsAt :
          \E k \in 1..path_iterator : calls[i].file = dir[k]

C13_Witness ==
    /\ error = "KeyError"
    /\ pc = "failed"
    /\ path_iterator = 2
    /\ Len(dir) = 3
    /\ Cardinality(RunCallsAt) = 1


\* C14: the simulation parameters are passed to the automator in the single
\* run_first_simulation call and in no other call (a run_simulation call
\* carries the file and the date only), and the parameter mapping and the
\* initial-date table keep, in every state, the value they were imported
\* with.
C14_ParametersAppliedOnce ==
    /\ \A i \in At("run_first_simulation", "call") :
          calls[i].arg.params = SIMULATION_PARAMETERS
    /\ \A i \in At("run_simulation", "call") : calls[i].arg.params = <<>>
    /\ Cardinality({ i \in RunCallsAt : calls[i].arg.params # <<>> }) <= 1
    /\ simulation_parameters = SIMULATION_PARAMETERS
    /\ initial_dates = INITIAL_DATES

C14_Witness ==
    /\ pc = "done"
    /\ Cardinality(At("run_simulation", "call")) = 2
    /\ Cardinality({ i \in RunCallsAt : calls[i].arg.params # <<>> }) = 1


\* The logger has been set up by the script.
LoggerSetUp == handlers # <<>>

\* C16: once set up, the logger has level DEBUG if -v was given, whatever
\* the quiet count; otherwise INFO for no -q, WARNING for one, ERROR for two
\* or more; its one handler has the same level; and without -v the selected
\* level never decreases as the quiet count grows, DEBUG being below all.
C16_LogLevelSelection ==
    /\ LoggerSetUp =>
          /\ verbose => logger_level = DEBUG
          /\ (~verbose /\ quiet = 0) => logger_level = INFO
          /\ (~verbose /\ quiet = 1) => logger_level = WARNING
          /\ (~verbose /\ quiet >= 2) => logger_level = ERROR
          /\ handlers = <<logger_level>>
    /\ \A q1, q2 \in 0..(MaxQuiet + 1) :
          /\ q1 <= q2 => log_level(q1, FALSE) <= log_level(q2, FALSE)
          /\ log_level(q1, TRUE) <= log_level(q2, FALSE)

C16_Witness ==
    /\ LoggerSetUp
    /\ verbose
    /\ quiet = 3
    /\ logger_level = DEBUG
    /\ handlers = <<DEBUG>>


\* The execution was started as a script (and not by a call of main).
ScriptPath == LoggerSetUp

\* The number of calls that precede the first file's cycle: validation (on
\* the script path) and the spawn.
Preamble == IF ScriptPath THEN 2 ELSE 1

\* The i-th call of an execution over dir in which no call fails, as far as
\* the listing alone determines it: e is that call.
IsExpectedCall(e, i) ==
    IF i < Preamble
    THEN e.op = "validate_arguments" /\ e.ev = "ok"
    ELSE IF i = Preamble
    THEN e.op = "Popen" /\ e.ev = "ok"
    ELSE IF i > Preamble + 5 * Len(dir)
    THEN e.op = "terminate" /\ e.ev = "ok" /\ i = Preamble + 5 * Len(dir) + 1
    ELSE /\ IsStep(e, ((i - Preamble - 1) \div 5) + 1, ((i - Preamble - 1) % 5) + 1)
         /\ e.ev \in {"call", "ok"}

\* The files whose scenario has no initial date.
Undated ==
    { k \in DOMAIN dir : Parsable(dir[k]) /\ ScenarioOf(dir[k]) \notin DOMAIN INITIAL_DATES }

\* The number of calls of a whole execution over dir in which no call
\* fails: it stops at the first undated file, on an empty listing, at the
\* summary of a single file, or after the terminate call.
ExpectedCalls ==
    IF Undated # {}
    THEN Preamble + 5 * ((CHOOSE k \in Undated : \A l \in Undated : k <= l) - 1) + 1
    ELSE IF Len(dir) = 0 THEN Preamble
    ELSE IF Len(dir) = 1 THEN Preamble + 5
    ELSE Preamble + 5 * Len(dir) + 1

\* The script or main has ended.
Ended == pc \in {"done", "failed", "rejected"}

\* C17: the sequence of operations on the collaborators depends on the
\* listing, on the way main was entered and on the outcome of each call, and
\* on no measured time: at every moment the call log, timestamps left out,
\* is the sequence that the listing alone determines, up to a last call that
\* failed and ended the execution; an execution in which no call failed ends
\* after the number of calls that the listing alone determines; and as long
\* as it has not ended, the program has a next step.
C17_TimingsDecideNothing ==
    /\ \A i \in DOMAIN calls :
          \/ IsExpectedCall(calls[i], i)
          \/ /\ calls[i].ev = "fail"
             /\ i = Len(calls)
             /\ Ended
             /\ IsExpectedCall([calls[i] EXCEPT !.ev = "ok"], i)
    /\ (Ended /\ \A i \in DOMAIN calls : calls[i].ev # "fail")
          => Len(calls) = ExpectedCalls
    /\ ~Ended => ENABLED Program

C17_Witness ==
    /\ pc = "done"
    /\ Len(dir) = 3
    /\ durations[1] > durations[2]
    /\ Len(calls) = ExpectedCalls


\* The files passed to a run call of either kind, in call order.
FilesRun ==
    LET sel == SelectSeq(calls, LAMBDA e : e.op \in RunOps /\ e.ev = "call")
    IN  [i \in DOMAIN sel |-> sel[i].file]

\* C18: the files that have been run are, at every moment, the first
\* entries of the listing in listing order, each once; the file of the
\* current cycle is the entry the iterator yielded last; the first file is
\* never passed to run_simulation; and when the loop has completed, every
\* file of the listing has been run.
C18_EveryFileOnceInOrder ==
    /\ Len(FilesRun) <= Len(dir)
    /\ \A i \in DOMAIN FilesRun : FilesRun[i] = dir[i]
    /\ Len(FilesRun) \in {path_iterator - 1, path_iterator}
    /\ path_iterator > 0 => file = dir[path_iterator]
    /\ \A i \in At("run_simulation", "call") : calls[i].file # dir[1]
    /\ LoopCompleted => FilesRun = dir

C18_Witness ==
    /\ LoopCompleted
    /\ Len(dir) = 3
    /\ FilesRun = dir
    /\ FilesRunBy("run_simulation") = <<dir[2], dir[3]>>


\* main found no first file, or could not extract the first file's metadata.
NoUsableFirstFile ==
    \/ error = "StopIteration"
    \/ error = "UnparsableFileNameError" /\ path_iterator = 1

\* C19: the process is launched and its warm-up wait is over before main
\* reads the listing: while main takes the first file and extracts its
\* metadata, and when it has failed doing so, the process has been spawned,
\* the warm-up interval has elapsed since, and main has not terminated the
\* process, which is running unless it exited by itself.
C19_LaunchPrecedesListing ==
    (pc \in {"next_first", "meta_first"} \/ NoUsableFirstFile) =>
       /\ \E j \in At("Popen", "ok") :
             now >= calls[j].at + NETUNO_STARTUP_WAIT_TIME
       /\ Terminations = 0
       /\ \/ proc = "running"
          \/ proc = "exited" /\ exited_at # "never"

C19_Witness ==
    /\ error = "StopIteration"
    /\ pc = "failed"
    /\ dir = <<>>
    /\ proc = "running"


\* The positions in the log of the messages of kind msg.
Logged(msg) == { i \in DOMAIN log : log[i].msg = msg }

\* C20: the terminate call is the last operation of an execution: when it
\* is made, every file of the listing has been exported and the summary has
\* been logged, the call is the last entry of the call log, and once the
\* process is terminated main has returned and no step follows.
C20_TerminationComesLast ==
    /\ \A i \in At("terminate", "ok") :
          /\ i = Len(calls)
          /\ \A k \in DOMAIN dir :
                \E j \in At("save_results", "ok") : j < i /\ calls[j].file = dir[k]
          /\ \A j \in DOMAIN calls : calls[j].ev # "fail"
          /\ \E m \in Logged("summary"), t \in Logged("terminated") :
                m < t /\ t = Len(log)
    /\ proc = "terminated" =>
          /\ pc = "done"
          /\ Terminations = 1
          /\ ~ENABLED Next

C20_Witness ==
    /\ proc = "terminated"
    /\ pc = "done"
    /\ Len(dir) = 2
    /\ calls[Len(calls)].op = "terminate"

====
